---- MODULE Spec2Model ----
(***************************************************************************)
(* Model of the vno single-file-component compiler: the parse loop, the    *)
(* section extraction, the import dedup and the build step of the `vno`    *)
(* object, with the file system and Deno's asynchronous file operations as *)
(* the environment.                                                        *)
(*                                                                         *)
(* A source file is a record: `imports` is the list of its import lines in *)
(* file order (each the label and the quoted relative path of the line),   *)
(* `text` is the sequence of its other characters, with each section tag   *)
(* as one token.                                                           *)
(*                                                                         *)
(* The files do not change while the process runs.  parse is called again  *)
(* only after the previous call has returned; the appends that call        *)
(* started may still be pending then.  The code between two awaits runs    *)
(* without interruption, so one action is one such stretch.  The appends   *)
(* build starts are not awaited and complete in any order.                 *)
(***************************************************************************)
EXTENDS Integers, Sequences, FiniteSets, TLC

VARIABLES
  pc,            \* "unloaded", "idle", "reading", "done", "failed", "crashed"
  fs,            \* the files on disk, by absolute path
  queue,         \* vno.queue
  cache,         \* vno.cache
  current,       \* the local `current` of parse, <<>> outside the loop
  out,           \* content of ./vno-build/test.js, one entry per append
  pending,       \* appends started by build and not completed yet
  dirExists,     \* ./vno-build exists
  ensurePending, \* ensureDir calls not completed yet
  parses,        \* number of calls of parse so far
  builds,        \* number of calls of build so far
  failure,       \* why parse rejected, "" if it did not
  enq,           \* history: the records pushed onto the queue, in order
  fin,           \* history: the records pushed into the cache, in order
  depth,         \* history: depth[i] is the import distance of enq[i]
  storage,       \* the Storage object: its fields app and size
  calls          \* history: the calls of Storage.cache, with what each returned

vars == <<pc, fs, queue, cache, current, out, pending, dirExists,
          ensurePending, parses, builds, failure, enq, fin, depth, storage, calls>>

\* The state of the vno object and its environment, and that of the Storage.
vnoVars == <<pc, fs, queue, cache, current, out, pending, dirExists,
             ensurePending, parses, builds, failure, enq, fin, depth>>

storageVars == <<storage, calls>>

----------------------------------------------------------------------------
(* Bounds *)

\* MaxLines: import lines in all the files of a build together.
\* MaxParses: calls of parse in one process.
\* MaxAppends: parse is called again only while the appends of all the builds,
\* those of the build the call leads to included, stay within this number.
\* MaxCalls: calls of Storage.cache on one Storage object.
MaxLines == 3
MaxParses == 2
MaxAppends == 5
MaxCalls == 3

----------------------------------------------------------------------------
(* Optional values: a property that is undefined is <<>>, a set one <<v>>. *)

None == <<>>
Some(v) == <<v>>

----------------------------------------------------------------------------
(* Paths *)

Cwd == "cwd"

locate(relative) == <<Cwd>> \o SelectSeq(relative, LAMBDA s : s # ".")

RelPaths == { <<".", "App.vue">>, <<".", "B.vue">>, <<".", "C.vue">>, <<"B.vue">> }

AbsPaths == { locate(r) : r \in RelPaths }

RootLabel == "App"

Root == [label |-> RootLabel, path |-> locate(<<".", "App.vue">>)]

ImportLines ==
  { [label |-> "App", rel |-> <<".", "App.vue">>],
    [label |-> "B",   rel |-> <<".", "B.vue">>],
    [label |-> "C",   rel |-> <<".", "C.vue">>],
    [label |-> "C",   rel |-> <<"B.vue">>] }

Labels == { l.label : l \in ImportLines } \cup {RootLabel}

----------------------------------------------------------------------------
(* Strings as sequences of tokens *)

Whitespace == {" ", "\n"}

TagMatches(tok, name) ==
  CASE name = "template" -> tok \in {"<template>", "</template>"}
    [] name = "script"   -> tok \in {"<script>", "</script>"}
    [] name = "style"    -> tok \in {"<style>", "</style>"}

FirstTag(data, name, from) ==
  IF \E i \in from..Len(data) : TagMatches(data[i], name)
  THEN CHOOSE i \in from..Len(data) :
         /\ TagMatches(data[i], name)
         /\ \A j \in from..(i - 1) : ~TagMatches(data[j], name)
  ELSE 0

SplitSecond(data, name) ==
  LET i == FirstTag(data, name, 1)
  IN  IF i = 0 THEN None
      ELSE LET j == FirstTag(data, name, i + 1)
           IN  Some(SubSeq(data, i + 1, IF j = 0 THEN Len(data) ELSE j - 1))

RunLength(s) ==
  IF \E i \in 1..Len(s) : s[i] \notin Whitespace
  THEN (CHOOSE i \in 1..Len(s) :
          /\ s[i] \notin Whitespace
          /\ \A j \in 1..(i - 1) : s[j] \in Whitespace) - 1
  ELSE Len(s)

RECURSIVE CollapseTemplate(_)
CollapseTemplate(s) ==
  IF s = <<>> THEN <<>>
  ELSE IF Head(s) = "\n" THEN CollapseTemplate(Tail(s))
  ELSE IF RunLength(s) >= 2 THEN CollapseTemplate(SubSeq(s, RunLength(s) + 1, Len(s)))
  ELSE <<Head(s)>> \o CollapseTemplate(Tail(s))

StripWhitespace(s) == SelectSeq(s, LAMBDA t : t \notin Whitespace)

indexOf(s, c) ==
  IF \E i \in 1..Len(s) : s[i] = c
  THEN (CHOOSE i \in 1..Len(s) : s[i] = c /\ \A j \in 1..(i - 1) : s[j] # c) - 1
  ELSE -1

lastIndexOf(s, c) ==
  IF \E i \in 1..Len(s) : s[i] = c
  THEN (CHOOSE i \in 1..Len(s) : s[i] = c /\ \A j \in (i + 1)..Len(s) : s[j] # c) - 1
  ELSE -1

slice(s, start, end) ==
  LET n  == Len(s)
      from == IF start < 0 THEN (IF n + start < 0 THEN 0 ELSE n + start)
              ELSE (IF start > n THEN n ELSE start)
      to   == IF end < 0 THEN (IF n + end < 0 THEN 0 ELSE n + end)
              ELSE (IF end > n THEN n ELSE end)
  IN  IF from >= to THEN <<>> ELSE SubSeq(s, from + 1, to)

----------------------------------------------------------------------------
(* Files *)

Unreadable == [readable |-> FALSE, imports |-> <<>>, text |-> <<>>]

File(imp, text) == [readable |-> TRUE, imports |-> imp, text |-> text]

TemplateBody == <<"\n", " ", " ", "a", " ", "b", "\n">>
ScriptBody   == <<"\n", "d", " ", "{", "a", "{", "}", "}", "\n">>
StyleBody    == <<"\n", "s", " ", "t", "\n">>

TemplateParts ==
  { <<"<template>">> \o TemplateBody \o <<"</template>", "\n">>,
    TemplateBody \o <<"</template>", "\n">>,
    <<>> }

ScriptParts ==
  { <<"<script>">> \o body \o <<"</script>", "\n">> :
      body \in { ScriptBody,
                 <<"d", " ", "a">>,
                 <<"d", "{", "a">>,
                 <<"a", "}">>,
                 <<"}", "a", "{">> } }
  \cup { ScriptBody \o <<"</script>", "\n">>, <<>> }

StyleParts ==
  { <<"<style>">> \o StyleBody \o <<"</style>">>,
    StyleBody \o <<"</style>">>,
    <<>> }

Texts == { t \o s \o y : t \in TemplateParts, s \in ScriptParts, y \in StyleParts }

TextOk ==
  <<"<template>">> \o TemplateBody \o <<"</template>", "\n">>
  \o <<"<script>">> \o ScriptBody \o <<"</script>", "\n">>
  \o <<"<style>">> \o StyleBody \o <<"</style>">>

----------------------------------------------------------------------------
(* Component objects *)

Component(id, label, path) ==
  [id |-> id, label |-> label, path |-> path,
   template |-> None, script |-> None, style |-> None, instance |-> None]

\* What each extractor computes from the text of a file: None when
\* data.split(regex)[1] is undefined, Some(the value it assigns) otherwise.

templateText(data) ==
  LET seg == SplitSecond(data, "template")
  IN  IF seg = None THEN None ELSE Some(CollapseTemplate(seg[1]))

scriptText(data) ==
  LET seg == SplitSecond(data, "script")
  IN  IF seg = None THEN None
      ELSE LET text  == StripWhitespace(seg[1])
               start == indexOf(text, "{") + 1
               end   == lastIndexOf(text, "}")
           IN  Some(slice(text, start, end))

styleText(data) ==
  LET seg == SplitSecond(data, "style")
  IN  IF seg = None THEN None ELSE Some(StripWhitespace(seg[1]))

\* The three of them for every text of the model, computed once.
Sections ==
  [data \in Texts |->
     [template |-> templateText(data), script |-> scriptText(data), style |-> styleText(data)]]

\* An extractor returns None when it throws (the TypeError of calling split
\* on undefined), and Some(the updated object) otherwise.

template(data, cur) ==
  IF Sections[data].template = None THEN None
  ELSE Some([cur EXCEPT !.template = Sections[data].template])

script(data, cur) ==
  IF Sections[data].script = None THEN None
  ELSE Some([cur EXCEPT !.script = Sections[data].script])

style(data, cur) ==
  IF Sections[data].style = None THEN None
  ELSE Some([cur EXCEPT !.style = Sections[data].style])

\* instance with a fault: the root special case is missing.
instance_Registered(cur) ==
  [cur EXCEPT !.instance =
     Some([form |-> "Vue.component", binding |-> cur.label, key |-> Some(cur.label),
           template |-> cur.template, script |-> cur.script])]

instance(cur) ==
  [cur EXCEPT !.instance =
     Some(IF cur.label = "App"
          THEN [form |-> "new Vue", binding |-> cur.label, key |-> None,
                template |-> cur.template, script |-> cur.script]
          ELSE [form |-> "Vue.component", binding |-> cur.label,
                key |-> Some(cur.label),
                template |-> cur.template, script |-> cur.script])]

\* The three extractors in the order parse calls them; None as soon as one throws.
Extract(data, cur) ==
  IF template(data, cur) = None THEN None
  ELSE IF script(data, template(data, cur)[1]) = None THEN None
  ELSE style(data, script(data, template(data, cur)[1])[1])

\* The object as the throwing extractor left it.
ExtractPartial(data, cur) ==
  IF template(data, cur) = None THEN cur
  ELSE IF script(data, template(data, cur)[1]) = None THEN template(data, cur)[1]
  ELSE script(data, template(data, cur)[1])[1]

----------------------------------------------------------------------------
(* Queue and cache *)

\* Known with a fault: the dedup check looks at the cache only.
Known_CacheOnly(label, c, q) ==
  \E i \in 1..Len(c) : c[i].label = label

\* Known with a fault: the dedup check looks at the queue only.
Known_QueueOnly(label, c, q) ==
  \E i \in 1..Len(q) : q[i].label = label

Known(label, c, q) ==
  \/ \E i \in 1..Len(c) : c[i].label = label
  \/ \E i \in 1..Len(q) : q[i].label = label

\* Push with a fault: the queue is used as a stack.
Push_Front(q, x) == <<x>> \o q

Push(q, x) == Append(q, x)

Shift(q) == Tail(q)

Front(q) == Head(q)

Reverse(s) == [i \in 1..Len(s) |-> s[Len(s) + 1 - i]]

\* The queue after imports(data); n is the number of objects pushed so far,
\* the next object pushed gets identity n + 1.
RECURSIVE imports(_, _, _, _)
imports(lines, c, q, n) ==
  IF lines = <<>> THEN q
  ELSE LET item == Head(lines)
           component == Component(n + 1, item.label, locate(item.rel))
       IN  IF ~Known(component.label, c, q)
           THEN imports(Tail(lines), c, Push(q, component), n + 1)
           ELSE imports(Tail(lines), c, q, n)

\* The objects of q pushed after the first n, in the order they were pushed.
Pushed(q, n) == SelectSeq(q, LAMBDA x : x.id > n)

\* The appends build starts for the (reversed) cache c, as build number b.
Writes(c, b) ==
  { [build |-> b, pos |-> k, instance |-> c[k].instance[1]] : k \in 1..Len(c) }

----------------------------------------------------------------------------
(* File systems *)

Injective(s) == \A i, j \in 1..Len(s) : i # j => s[i] # s[j]

ImportLists ==
  UNION { { s \in [1..n -> ImportLines] : Injective(s) } : n \in 0..MaxLines }

RECURSIVE Sum(_, _)
Sum(f, S) == IF S = {} THEN 0
             ELSE LET x == CHOOSE y \in S : TRUE IN f[x] + Sum(f, S \ {x})

\* The files a file system reaches from the root file through import lines.
RECURSIVE Reach(_, _)
Reach(f, seen) ==
  LET more == UNION { { locate(f[p].imports[i].rel) : i \in 1..Len(f[p].imports) } : p \in seen }
  IN  IF more \subseteq seen THEN seen ELSE Reach(f, seen \cup more)

\* File systems that vary the import graph: every file that exists is
\* well-formed and is reached from the root file.
GraphFileSystems ==
  { f \in [AbsPaths -> {Unreadable} \cup { File(i, TextOk) : i \in ImportLists }] :
      /\ Sum([p \in AbsPaths |-> Len(f[p].imports)], AbsPaths) <= MaxLines
      /\ \A p \in AbsPaths \ Reach(f, {Root.path}) : f[p] = Unreadable }

TextGraph ==
  [p \in AbsPaths |->
     IF p = Root.path
     THEN <<[label |-> "B", rel |-> <<".", "B.vue">>], [label |-> "C", rel |-> <<".", "C.vue">>]>>
     ELSE <<>>]

\* File systems that vary the text of one file of a fixed import graph: the
\* root imports B and C, which import nothing.
TextFileSystems ==
  { [p \in AbsPaths |-> File(TextGraph[p], IF p = odd THEN t ELSE TextOk)] :
      odd \in AbsPaths, t \in Texts }

----------------------------------------------------------------------------
(* The Storage class.  `app` is a function from the labels that are keys of *)
(* the object to the component stored under each.                           *)

StorageLabels == {"App", "B"}

\* The component objects given to a Storage; the second and the third differ
\* in identity only.
StorageComponents ==
  { Component(1, "App", locate(<<".", "App.vue">>)),
    Component(2, "B", locate(<<".", "B.vue">>)),
    Component(3, "B", locate(<<".", "B.vue">>)) }

VueStates == {"state1", "state2"}

\* new Storage(); the empty objects {} of _root and _vue are None.
NewStorage == [app |-> [l \in {} |-> None], root |-> None, vue |-> None, size |-> 0]

\* StorageCache with a fault: size counts the keys, not the calls.
StorageCache_CountKeys(s, label, component) ==
  [s EXCEPT !.app = [l \in DOMAIN s.app \cup {label} |-> IF l = label THEN component ELSE s.app[l]],
            !.size = IF label \in DOMAIN s.app THEN s.size ELSE s.size + 1]

\* StorageCache with a fault: the container is replaced, not extended.
StorageCache_Replace(s, label, component) ==
  [s EXCEPT !.app = [l \in {label} |-> component],
            !.size = s.size + 1]

\* The object after cache(label, component).
StorageCache(s, label, component) ==
  [s EXCEPT !.app = [l \in DOMAIN s.app \cup {label} |-> IF l = label THEN component ELSE s.app[l]],
            !.size = s.size + 1]

\* get(label): None is undefined.
StorageGet(s, label) == IF label \in DOMAIN s.app THEN Some(s.app[label]) ELSE None

StorageInit ==
  /\ storage = NewStorage
  /\ calls = <<>>

\* cache(label, component); the call returns its argument.
Cache ==
  /\ Len(calls) < MaxCalls
  /\ \E label \in StorageLabels, component \in StorageComponents :
       /\ storage' = StorageCache(storage, label, component)
       /\ calls' = Append(calls, [label |-> label, component |-> component,
                                  returned |-> component])
  /\ UNCHANGED vnoVars

\* set root(component)
SetRoot ==
  /\ \E component \in StorageComponents : storage' = [storage EXCEPT !.root = Some(component)]
  /\ UNCHANGED <<calls, vnoVars>>

\* set vue(vue)
SetVue ==
  /\ \E vue \in VueStates : storage' = [storage EXCEPT !.vue = Some(vue)]
  /\ UNCHANGED <<calls, vnoVars>>

----------------------------------------------------------------------------
(* The program *)

Init ==
  /\ pc = "unloaded"
  /\ fs \in GraphFileSystems \cup TextFileSystems
  /\ queue = <<>>
  /\ cache = <<>>
  /\ current = None
  /\ out = <<>>
  /\ pending = {}
  /\ dirExists \in BOOLEAN
  /\ ensurePending = 0
  /\ parses = 0
  /\ builds = 0
  /\ failure = ""
  /\ enq = <<>>
  /\ fin = <<>>
  /\ depth = <<>>
  /\ StorageInit

\* Build with a fault: a reversed copy is iterated, the cache is left as it is.
Build_ReverseCopy(c) ==
  /\ ensurePending' = ensurePending + 1
  /\ cache' = c
  /\ pending' = pending \cup Writes(Reverse(c), builds + 1)
  /\ builds' = builds + 1

\* build(), called with the cache holding c.
Build(c) ==
  /\ ensurePending' = ensurePending + 1
  /\ cache' = Reverse(c)
  /\ pending' = pending \cup Writes(Reverse(c), builds + 1)
  /\ builds' = builds + 1

\* Evaluation of the module: the object is created and build() is called once.
ModuleLoad ==
  /\ pc = "unloaded"
  /\ Build(cache)
  /\ pc' = "idle"
  /\ UNCHANGED <<fs, queue, current, out, dirExists, parses, failure, enq, fin, depth, storageVars>>

\* Parse with a fault: every call starts from an empty queue and cache.
Parse_Fresh ==
  /\ pc \in {"idle", "done"}
  /\ parses < MaxParses
  /\ Len(out) + Cardinality(pending) + Len(cache) + 1 <= MaxAppends
  /\ LET root == Component(Len(enq) + 1, Root.label, Root.path)
         q    == Push(<<>>, root)
     IN  /\ current' = Some(Front(q))
         /\ queue' = Shift(q)
         /\ enq' = Append(enq, root)
         /\ depth' = Append(depth, 0)
  /\ cache' = <<>>
  /\ parses' = parses + 1
  /\ pc' = "reading"
  /\ UNCHANGED <<fs, out, pending, dirExists, ensurePending, builds, failure, fin,
                 storageVars>>

\* parse(root) up to its first await.
Parse ==
  /\ pc \in {"idle", "done"}
  /\ parses < MaxParses
  /\ Len(out) + Cardinality(pending) + Len(cache) + 1 <= MaxAppends
  /\ LET root == Component(Len(enq) + 1, Root.label, Root.path)
         q    == Push(queue, root)
     IN  /\ current' = Some(Front(q))
         /\ queue' = Shift(q)
         /\ enq' = Append(enq, root)
         /\ depth' = Append(depth, 0)
  /\ parses' = parses + 1
  /\ pc' = "reading"
  /\ UNCHANGED <<fs, cache, out, pending, dirExists, ensurePending, builds, failure, fin,
                 storageVars>>

\* ReadFail with a fault: the failing component is skipped and the loop goes on.
ReadFail_Skip ==
  /\ pc = "reading"
  /\ ~fs[current[1].path].readable
  /\ failure' = "UnreadableSource"
  /\ IF queue = <<>>
     THEN pc' = "failed" /\ UNCHANGED <<queue, current>>
     ELSE pc' = "reading" /\ current' = Some(Front(queue)) /\ queue' = Shift(queue)
  /\ UNCHANGED <<fs, cache, out, pending, dirExists, ensurePending,
                 parses, builds, enq, fin, depth, storageVars>>

\* Deno.readTextFile rejects: parse rejects.
ReadFail ==
  /\ pc = "reading"
  /\ ~fs[current[1].path].readable
  /\ pc' = "failed"
  /\ failure' = "UnreadableSource"
  /\ UNCHANGED <<fs, queue, cache, current, out, pending, dirExists, ensurePending,
                 parses, builds, enq, fin, depth, storageVars>>

\* The read resolves and an extractor throws: parse rejects.
ExtractFail ==
  /\ pc = "reading"
  /\ fs[current[1].path].readable
  /\ Extract(fs[current[1].path].text, current[1]) = None
  /\ current' = Some(ExtractPartial(fs[current[1].path].text, current[1]))
  /\ pc' = "failed"
  /\ failure' = "TypeError"
  /\ UNCHANGED <<fs, queue, cache, out, pending, dirExists, ensurePending,
                 parses, builds, enq, fin, depth, storageVars>>

\* The rest of a loop iteration once the read has resolved, for a file whose
\* extraction does not throw: the object with its sections and instance set,
\* and the queue after imports.
\* Processed with a fault: instance is called before the extractors.
Processed_InstanceFirst == Extract(fs[current[1].path].text, instance(current[1]))[1]

Processed == instance(Extract(fs[current[1].path].text, current[1])[1])

QueueAfter == imports(fs[current[1].path].imports, cache, queue, Len(enq))

Iterate ==
  /\ pc = "reading"
  /\ fs[current[1].path].readable
  /\ Extract(fs[current[1].path].text, current[1]) # None
  /\ enq' = enq \o Pushed(QueueAfter, Len(enq))
  /\ depth' = depth \o [k \in 1..Len(Pushed(QueueAfter, Len(enq))) |-> depth[current[1].id] + 1]
  /\ fin' = Append(fin, Processed)

\* The iteration ends with the queue not empty: the next object is dequeued
\* and its read starts.
Continue ==
  /\ Iterate
  /\ QueueAfter # <<>>
  /\ cache' = Append(cache, Processed)
  /\ current' = Some(Front(QueueAfter))
  /\ queue' = Shift(QueueAfter)
  /\ UNCHANGED <<pc, fs, out, pending, dirExists, ensurePending, parses, builds, failure,
                 storageVars>>

\* The iteration ends with the queue empty: build() and return.
Finish ==
  /\ Iterate
  /\ QueueAfter = <<>>
  /\ Build(Append(cache, Processed))
  /\ current' = None
  /\ queue' = QueueAfter
  /\ pc' = "done"
  /\ UNCHANGED <<fs, out, dirExists, parses, failure, storageVars>>

\* ensureDir completes.
EnsureDirDone ==
  /\ pc # "crashed"
  /\ ensurePending > 0
  /\ ensurePending' = ensurePending - 1
  /\ dirExists' = TRUE
  /\ UNCHANGED <<pc, fs, queue, cache, current, out, pending, parses, builds,
                 failure, enq, fin, depth, storageVars>>

\* One of the pending writeTextFile calls completes.
AppendDone ==
  /\ pc # "crashed"
  /\ dirExists
  /\ \E w \in pending :
       /\ out' = Append(out, w)
       /\ pending' = pending \ {w}
  /\ UNCHANGED <<pc, fs, queue, cache, current, dirExists, ensurePending, parses,
                 builds, failure, enq, fin, depth, storageVars>>

\* A pending writeTextFile call rejects because the directory does not exist;
\* the rejection is unhandled and ends the process.
AppendFail ==
  /\ pc # "crashed"
  /\ ~dirExists
  /\ pending # {}
  /\ pc' = "crashed"
  /\ UNCHANGED <<fs, queue, cache, current, out, pending, dirExists, ensurePending,
                 parses, builds, failure, enq, fin, depth, storageVars>>

Next ==
  \/ ModuleLoad
  \/ Parse
  \/ ReadFail
  \/ ExtractFail
  \/ Continue
  \/ Finish
  \/ EnsureDirDone
  \/ AppendDone
  \/ AppendFail

Spec == Init /\ [][Next]_vars

\* A read that was started completes, and the event loop then resumes parse.
FairSpec == Spec /\ WF_vars(ReadFail \/ ExtractFail \/ Continue \/ Finish)

\* A Storage object on its own: the vno object is not used.
StorageNext ==
  \/ Cache
  \/ SetRoot
  \/ SetVue

StorageOnly ==
  /\ fs = [p \in AbsPaths |-> Unreadable]
  /\ dirExists = FALSE
  /\ Init

StorageSpec == StorageOnly /\ [][StorageNext]_vars

----------------------------------------------------------------------------
(* The import graph of a file system.  A component is identified by its     *)
(* label; a descriptor is a label with the path the root call or an import  *)
(* line gives it.                                                           *)

Descriptors(f) ==
  {Root} \cup UNION { { [label |-> f[p].imports[i].label, path |-> locate(f[p].imports[i].rel)] :
                          i \in 1..Len(f[p].imports) } : p \in AbsPaths }

ImportEdges(f) ==
  UNION { { <<d.label, f[d.path].imports[i].label>> : i \in 1..Len(f[d.path].imports) } :
          d \in Descriptors(f) }

RECURSIVE LabelReach(_, _)
LabelReach(E, S) ==
  LET more == { e[2] : e \in { x \in E : x[1] \in S } }
  IN  IF more \subseteq S THEN S ELSE LabelReach(E, S \cup more)

AcyclicImports(f) ==
  \A e \in ImportEdges(f) : e[1] \notin LabelReach(ImportEdges(f), {e[2]})

WellFormed(f) ==
  \A d \in Descriptors(f) :
    f[d.path].readable /\ Extract(f[d.path].text, Component(0, d.label, d.path)) # None

DiscoveredLabels == { enq[i].label : i \in 1..Len(enq) }

NoLabelTwice(s) == \A i, j \in 1..Len(s) : i # j => s[i].label # s[j].label

----------------------------------------------------------------------------
(* Claims *)

OutFragments == [i \in 1..Len(out) |-> out[i].instance]

Fragments(s) == [i \in 1..Len(s) |-> s[i].instance[1]]

\* C2: once the build of the first parse has finished (every append it started
\* has completed), the output file holds the fragments in exactly the reverse
\* of the finalization order.
C2_ReverseOrder ==
  (parses = 1 /\ pc = "done" /\ pending = {}) => OutFragments = Reverse(Fragments(fin))

\* The files processed so far that import label l, and the path the first
\* import of l in processing order gives it.
Imports(p, l) == \E i \in 1..Len(fs[p].imports) : fs[p].imports[i].label = l

ImportersOf(l) == { fin[k].path : k \in { j \in 1..Len(fin) : Imports(fin[j].path, l) } }

FirstImportPath(l) ==
  LET k == CHOOSE j \in 1..Len(fin) :
             Imports(fin[j].path, l) /\ \A h \in 1..(j - 1) : ~Imports(fin[h].path, l)
      lines == fs[fin[k].path].imports
      i == CHOOSE j \in 1..Len(lines) :
             lines[j].label = l /\ \A h \in 1..(j - 1) : lines[h].label # l
  IN  locate(lines[i].rel)

\* C3: when the first parse returns, every label imported by two or more
\* different files has exactly one record in the cache, and that record has the
\* path of the first import of the label in processing order.
C3_OneRecordPerLabel ==
  (parses = 1 /\ pc = "done") =>
    \A l \in Labels :
      Cardinality(ImportersOf(l)) >= 2 =>
        /\ Cardinality({ i \in 1..Len(cache) : cache[i].label = l }) = 1
        /\ \A i \in 1..Len(cache) : cache[i].label = l => cache[i].path = FirstImportPath(l)

InQueue(l) == \E i \in 1..Len(queue) : queue[i].label = l

InCache(l) == \E i \in 1..Len(cache) : cache[i].label = l

InFlight(l) == pc = "reading" /\ current # None /\ current[1].label = l

\* C4: during the first parse every discovered label is held in exactly one
\* place: it is never in the queue and in the cache at once, and it is never
\* lost (the component being processed counts as held by the loop).
C4_Partition ==
  parses = 1 /\ pc \in {"reading", "done"} =>
    \A l \in DiscoveredLabels :
      /\ InQueue(l) \/ InCache(l) \/ InFlight(l)
      /\ ~(InQueue(l) /\ InCache(l))

\* C5: over the whole run of the first parse a record with a given label is
\* pushed onto the queue exactly once.
C5_PushedOnce == parses = 1 => NoLabelTwice(enq)

\* C6: components are finalized in exactly the order in which they were
\* enqueued, and within one call of parse in breadth-first order: a component
\* discovered through d imports is never finalized after one discovered
\* through more than d imports.
C6_FifoBreadthFirst ==
  /\ Len(fin) <= Len(enq)
  /\ \A k \in 1..Len(fin) :
       /\ fin[k].id = enq[k].id
       /\ fin[k].label = enq[k].label
       /\ fin[k].path = enq[k].path
  /\ \A k \in 1..(Len(fin) - 1) :
       depth[fin[k + 1].id] = 0 \/ depth[fin[k].id] <= depth[fin[k + 1].id]

C6_Witness ==
  /\ Len(fin) = 4
  /\ depth[fin[2].id] = 1 /\ depth[fin[3].id] = 1 /\ depth[fin[4].id] = 2
  /\ fin[2].label # fin[3].label

\* The position in the output file of the fragment of the k-th finalized
\* record, once the build of the first parse has written all of them.
OutPosition(k) == CHOOSE i \in 1..Len(out) : out[i].pos = Len(fin) + 1 - k

\* C7: in the finished output of the first parse over an acyclic import graph,
\* the fragment of every component comes before the fragment of every
\* component that imports it.
C7_DependenciesFirst ==
  (parses = 1 /\ pc = "done" /\ pending = {} /\ AcyclicImports(fs)) =>
    \A x, y \in 1..Len(fin) :
      Imports(fin[x].path, fin[y].label) => OutPosition(y) < OutPosition(x)

\* C8: when the read of a dequeued component fails, parse rejects and that is
\* the end of the build: the component is not inserted into the cache, build is
\* not called, nothing of this build is appended or pending, and from then on
\* nothing is dequeued, read or inserted.
C8_ReadFailureAborts ==
  /\ [](failure = "UnreadableSource" =>
          /\ pc = "failed"
          /\ current # None
          /\ \A i \in 1..Len(cache) : cache[i].id # current[1].id
          /\ builds = parses
          /\ \A w \in pending : w.build <= parses
          /\ \A i \in 1..Len(out) : out[i].build <= parses)
  /\ [][failure = "UnreadableSource" =>
          UNCHANGED <<pc, queue, cache, current, parses, builds, pending, out, enq, fin>>]_vars

C8_Witness ==
  /\ failure = "UnreadableSource"
  /\ Len(fin) >= 2
  /\ queue # <<>>
  /\ ensurePending = 0

HasOpeningTags(data) ==
  \A tag \in {"<template>", "<script>", "<style>"} : \E i \in 1..Len(data) : data[i] = tag

\* C9: a component whose source lacks the template, the script or the style
\* opening tag makes extraction fail and the build abort: it is never
\* finalized, and after the failure build is not called.
C9_MissingTagAborts ==
  /\ \A k \in 1..Len(fin) : HasOpeningTags(fs[fin[k].path].text)
  /\ failure = "TypeError" =>
       /\ pc = "failed"
       /\ builds = parses
       /\ \A i \in 1..Len(cache) : cache[i].id # current[1].id

\* The whitespace-stripped script text of a file that has a script section.
ScriptSource(data) == StripWhitespace(SplitSecond(data, "script")[1])

BodyIsolated(text) ==
  /\ indexOf(text, "{") # -1
  /\ lastIndexOf(text, "}") # -1
  /\ indexOf(text, "{") < lastIndexOf(text, "}")

\* C10: script extraction sets current.script only when the object-literal
\* body can be isolated; otherwise it fails and the component is not finalized.
C10_MalformedScriptFails ==
  \A k \in 1..Len(fin) :
    fin[k].script # None => BodyIsolated(ScriptSource(fs[fin[k].path].text))

\* C11: the instance fragment of a finalized component has the root form
\* (new Vue) if and only if its label is the root identifier; under every
\* other label it has the registration form (Vue.component) with the label as
\* registry key and as binding name.
C11_RootForm ==
  \A k \in 1..Len(fin) :
    /\ fin[k].instance[1].form = "new Vue" <=> fin[k].label = RootLabel
    /\ fin[k].instance[1].binding = fin[k].label
    /\ fin[k].label # RootLabel =>
         /\ fin[k].instance[1].form = "Vue.component"
         /\ fin[k].instance[1].key = Some(fin[k].label)

C11_Witness ==
  /\ pc = "done"
  /\ Len(fin) = 3
  /\ fin[1].label = RootLabel /\ fin[2].label # RootLabel /\ fin[3].label = RootLabel

\* The component objects that exist: queued, being processed, or in the cache.
Objects ==
  { queue[i] : i \in 1..Len(queue) } \cup { cache[i] : i \in 1..Len(cache) }
  \cup { current[i] : i \in 1..Len(current) }

\* C12: in every reachable state an object whose instance is set has its
\* template and script set, and the instance was made from them; every object
\* in the cache has template, script, style and instance set.
C12_InstanceAfterExtraction ==
  /\ \A r \in Objects :
       r.instance # None =>
         /\ r.template # None /\ r.script # None
         /\ r.instance[1].template = r.template
         /\ r.instance[1].script = r.script
  /\ \A i \in 1..Len(cache) :
       /\ cache[i].template # None /\ cache[i].script # None
       /\ cache[i].style # None /\ cache[i].instance # None

C12_Witness ==
  /\ failure = "TypeError"
  /\ current[1].template # None /\ current[1].script # None /\ current[1].style = None
  /\ current[1].instance = None
  /\ Len(cache) = 2

\* C15: the appends of build are sequential: at most one is pending at any
\* time, an append is pending only when the appends of the fragments build
\* iterated over before it have completed, and the file holds the fragments of
\* a build in the order in which build iterated over them.
C15_SequentialAppends ==
  /\ Cardinality(pending) <= 1
  /\ \A w \in pending :
       \A k \in 1..(w.pos - 1) :
         \E i \in 1..Len(out) : out[i].build = w.build /\ out[i].pos = k
  /\ \A i, j \in 1..Len(out) :
       i < j /\ out[i].build = out[j].build => out[i].pos < out[j].pos

\* C16: every append that a step starts belongs to a build whose directory
\* creation has completed before that step (builds - ensurePending of the
\* ensureDir calls have completed; builds are numbered in call order).
C16_DirBeforeWrites ==
  [][\A w \in pending' \ pending : w.build <= builds - ensurePending]_vars

\* The call of parse that pushed the object with identity id, and the finalized
\* records of call c that carry label l.
CallOf(id) == Cardinality({ i \in 1..id : depth[i] = 0 })

ProcessedAs(c, l) == { k \in 1..Len(fin) : fin[k].label = l /\ CallOf(fin[k].id) = c }

\* No call of parse has processed a label more than twice, and twice only when
\* the file processed first under the label imports that label.
AtMostTwice ==
  \A c \in 1..parses : \A l \in Labels :
    /\ Cardinality(ProcessedAs(c, l)) <= 2
    /\ Cardinality(ProcessedAs(c, l)) = 2 =>
         \A k \in ProcessedAs(c, l) :
           (\E h \in ProcessedAs(c, l) : k < h) => Imports(fin[k].path, l)

\* C17: whatever the import graph (cycles and self-imports included), parse
\* returns when every file is readable and well-formed; imports never enqueues
\* a label that is in the queue or in the cache; and whenever a record is
\* finalized, no call of parse has processed a label more than twice, and twice
\* only when the file processed first under the label imports that label.
C17_CyclesTerminate ==
  /\ [][Len(fin') > Len(fin) => AtMostTwice']_vars
  /\ [][\A k \in (Len(enq) + 1)..Len(enq') :
          depth'[k] > 0 =>
            /\ ~InQueue(enq'[k].label) /\ ~InCache(enq'[k].label)
            /\ \A h \in (Len(enq) + 1)..(k - 1) : enq'[h].label # enq'[k].label]_vars
  /\ (pc = "reading" /\ WellFormed(fs)) ~> (pc = "done" \/ pc = "crashed")

C17_Witness ==
  /\ pc = "done" /\ parses = 1
  /\ Len(fin) = 3
  /\ fin[2].label = fin[3].label /\ fin[2].label # RootLabel
  /\ Imports(fin[2].path, RootLabel)

\* C18: in the first build on fresh state the root object is the first record
\* finalized and the last one build iterates over, and once the build has
\* written everything the fragment of the root is the last one in the file,
\* after the fragment of every other component of the build.
C18_RootLast ==
  (parses = 1 /\ pc = "done" /\ pending = {}) =>
    /\ fin[1].id = enq[1].id /\ fin[1].label = Root.label /\ fin[1].path = Root.path
    /\ cache[Len(cache)] = fin[1]
    /\ out[Len(out)].instance = fin[1].instance[1]

\* The appends build number b started.
WritesOf(b) == { w \in pending : w.build = b } \cup { out[i] : i \in { j \in 1..Len(out) : out[j].build = b } }

\* C19: build reverses the cache in place.  When the first parse on fresh
\* state returns, the cache holds the finalized records in the reverse of
\* their finalization order, the root last; every call of build leaves the
\* records the cache held in the order opposite to the one they had, and
\* emits the fragments in the order the cache then has.
C19_ReverseInPlace ==
  /\ [](parses = 1 /\ pc = "done" =>
          /\ cache = Reverse(fin)
          /\ cache[Len(cache)].id = enq[1].id)
  /\ [][builds' = builds + 1 =>
          /\ Len(cache') >= Len(cache)
          /\ SubSeq(cache', Len(cache') - Len(cache) + 1, Len(cache')) = Reverse(cache)
          /\ pending' \ pending =
               { [build |-> builds', pos |-> k, instance |-> cache'[k].instance[1]] :
                   k \in 1..Len(cache') }]_vars

C19_Witness ==
  /\ parses = 2 /\ pc = "done"
  /\ Len(cache) = 3
  /\ cache[1].label = RootLabel /\ cache[2].id = enq[1].id /\ cache[3].label # RootLabel

\* The finalized records of the first call of parse.
FirstCall == { fin[k] : k \in { j \in 1..Len(fin) : CallOf(fin[j].id) = 1 } }

LastCached(l) ==
  LET k == CHOOSE i \in 1..Len(calls) :
             calls[i].label = l /\ \A j \in (i + 1)..Len(calls) : calls[j].label # l
  IN  calls[k].component

\* C13: after any sequence of calls of Storage.cache, size is the number of
\* calls made, every call returned the component it was given, and get(label)
\* is the component of the most recent call for that label, undefined for a
\* label never cached.
C13_SizeCountsCalls ==
  /\ storage.size = Len(calls)
  /\ \A i \in 1..Len(calls) : calls[i].returned = calls[i].component
  /\ \A l \in StorageLabels :
       StorageGet(storage, l) =
         IF \E i \in 1..Len(calls) : calls[i].label = l THEN Some(LastCached(l)) ELSE None

C13_Witness ==
  /\ Len(calls) = 3
  /\ calls[1].label = calls[3].label
  /\ calls[1].component # calls[3].component
  /\ calls[2].label # calls[1].label

\* C14 as stated: once get(label) returns a record, it returns that same
\* record in every later state, whatever calls of cache follow.
C14_AppendOnly ==
  [][\A l \in StorageLabels :
       StorageGet(storage, l) # None => StorageGet(storage', l) = StorageGet(storage, l)]_vars

\* C14 amended: no record is ever removed, and the record of a label changes
\* only in a call of cache for that same label, to the record given in the call.
C14_NeverRemoved ==
  [][\A l \in StorageLabels :
       StorageGet(storage, l) # None =>
         /\ StorageGet(storage', l) # None
         /\ StorageGet(storage', l) # StorageGet(storage, l) =>
              /\ Len(calls') = Len(calls) + 1
              /\ calls'[Len(calls')].label = l
              /\ StorageGet(storage', l) = Some(calls'[Len(calls')].component)]_vars

C14_Witness ==
  /\ Len(calls) = 2
  /\ calls[1].label = calls[2].label
  /\ calls[1].component # calls[2].component
  /\ StorageGet(storage, calls[1].label) = Some(calls[2].component)

====
